---- MODULE Spec2Model ----
(***************************************************************************)
(* The OTP verification flow of src/main.py: the two request handlers      *)
(* start_otp (POST /api/auth/start) and verify_otp (POST /api/auth/verify) *)
(* over the "auth" collection of the document store.                       *)
(*                                                                         *)
(* Every store call (update_one, find_one) is one atomic step; the code    *)
(* between two store calls of a handler is local and is folded into the    *)
(* step that follows it, except the expiry/code check of verify_otp, which *)
(* reads the clock and is a step of its own.  Handlers of different        *)
(* requests interleave freely in Spec and run one after the other in       *)
(* SpecSeq.  Strings are TLA+ strings, documents are records whose domain  *)
(* is the set of fields present, the clock counts minutes.                 *)
(***************************************************************************)
EXTENDS Integers, Sequences, FiniteSets, TLC

VARIABLES
    db,     \* the imported store handle: TRUE when connected, FALSE when None
    auth,   \* the "auth" collection: the documents in insertion order, _id = position
    now,    \* datetime.now(timezone.utc), in minutes
    h,      \* the requests served: h[i] is the handler of the i-th request
    writer  \* history: writer[_id] = the request whose upsert last wrote the document

vars == <<db, auth, now, h, writer>>

----------------------------------------------------------------------------
(* Bounds of the model *)

MaxTime == 6

MaxRequests == 3

(* Constants of the program *)

NAME_MIN == 2

NAME_MAX == 80

PHONE_MIN == 8

PHONE_MAX == 16

OTP_MIN == 4

OTP_MAX == 6

OTP_LOW == 100000

OTP_HIGH == 999999

OTP_MINUTES == 5

----------------------------------------------------------------------------
(* Strings *)

IsSpace(c) == c \in {" ", "\t", "\n", "\r"}

RECURSIVE LStrip(_)
LStrip(s) ==
    IF Len(s) = 0 THEN s
    ELSE IF IsSpace(SubSeq(s, 1, 1)) THEN LStrip(SubSeq(s, 2, Len(s)))
    ELSE s

RECURSIVE RStrip(_)
RStrip(s) ==
    IF Len(s) = 0 THEN s
    ELSE IF IsSpace(SubSeq(s, Len(s), Len(s))) THEN RStrip(SubSeq(s, 1, Len(s) - 1))
    ELSE s

\* str.strip(): the string without its leading and trailing whitespace
Strip(s) == RStrip(LStrip(s))

Digit(d) == SubSeq("0123456789", d + 1, d + 1)

\* f"{n}" for n >= 0: the decimal digits of n
RECURSIVE FormatInt(_)
FormatInt(n) == IF n < 10 THEN Digit(n) ELSE FormatInt(n \div 10) \o Digit(n % 10)

----------------------------------------------------------------------------
(* Inputs *)

\* values random.randint(100000, 999999) can return
RandInt == {OTP_LOW, OTP_HIGH}

NameInputs == {" Al ", "A"}

PhoneInputs == {"55512345", " 55512345", "5551234"}

OtpInputs == {FormatInt(n) : n \in RandInt} \cup {"123"}

\* StartOtpRequest: the Field(min_length, max_length) constraints
StartOtpRequest(name, phone) ==
    /\ Len(name) >= NAME_MIN /\ Len(name) <= NAME_MAX
    /\ Len(phone) >= PHONE_MIN /\ Len(phone) <= PHONE_MAX

\* VerifyOtpRequest: the Field(min_length, max_length) constraints
VerifyOtpRequest(phone, otp) ==
    /\ Len(phone) >= PHONE_MIN /\ Len(phone) <= PHONE_MAX
    /\ Len(otp) >= OTP_MIN /\ Len(otp) <= OTP_MAX

----------------------------------------------------------------------------
(* The document store *)

Has(doc, f) == f \in DOMAIN doc

\* $set: the fields of upd written over doc
SetFields(doc, upd) ==
    [f \in DOMAIN doc \cup DOMAIN upd |-> IF f \in DOMAIN upd THEN upd[f] ELSE doc[f]]

\* $unset: the fields fs removed from doc
UnsetFields(doc, fs) == [f \in DOMAIN doc \ fs |-> doc[f]]

\* positions of the documents of coll whose phone is p
MatchPhone(coll, p) == {k \in 1..Len(coll) : coll[k].phone = p}

Min(S) == CHOOSE x \in S : \A y \in S : x <= y

\* FindOne with the phone normalised before the lookup
FindOneStripped(coll, p) ==
    IF MatchPhone(coll, Strip(p)) = {} THEN <<>>
    ELSE <<coll[Min(MatchPhone(coll, Strip(p)))]>>

\* find_one({"phone": p}): <<>> for None, <<doc>> for the first match
FindOne(coll, p) ==
    IF MatchPhone(coll, p) = {} THEN <<>> ELSE <<coll[Min(MatchPhone(coll, p))]>>

\* UpsertByPhone with the payload under $setOnInsert: an existing record is left as it is
UpsertKeepFirst(coll, p, set, onInsert) ==
    IF MatchPhone(coll, p) = {}
    THEN Append(coll, SetFields(SetFields([_id |-> Len(coll) + 1, phone |-> p], onInsert), set))
    ELSE coll

\* update_one({"phone": p}, {"$set": set, "$setOnInsert": onInsert}, upsert=True)
UpsertByPhone(coll, p, set, onInsert) ==
    IF MatchPhone(coll, p) = {}
    THEN Append(coll, SetFields(SetFields([_id |-> Len(coll) + 1, phone |-> p], onInsert), set))
    ELSE [coll EXCEPT ![Min(MatchPhone(coll, p))] = SetFields(@, set)]

\* update_one({"_id": id}, {"$set": set, "$unset": unset})
UpdateById(coll, id, set, unset) ==
    IF id \in 1..Len(coll)
    THEN [coll EXCEPT ![id] = UnsetFields(SetFields(@, set), unset)]
    ELSE coll

----------------------------------------------------------------------------
(* start_otp *)

\* StartPayload without the verified field
StartPayloadNoVerified(name, phone, otp, t) ==
    [name        |-> Strip(name),
     phone       |-> Strip(phone),
     otp_code    |-> otp,
     otp_expires |-> t + OTP_MINUTES,
     updated_at  |-> t]

\* the payload start_otp builds (lines 95-102)
StartPayload(name, phone, otp, t) ==
    [name        |-> Strip(name),
     phone       |-> Strip(phone),
     otp_code    |-> otp,
     otp_expires |-> t + OTP_MINUTES,
     verified    |-> FALSE,
     updated_at  |-> t]

Idle == [kind |-> "none", pc |-> "idle", name |-> "", phone |-> "", otp |-> "",
         payload |-> <<>>, record |-> <<>>, at |-> -1, status |-> 0, detail |-> "",
         hit |-> FALSE, saw |-> 0]

\* a request is taken up once the requests before it have been
Ready(i) == h[i].pc = "idle" /\ (IF i = 1 THEN TRUE ELSE h[i - 1].pc # "idle")

\* lines 86-102: the request is validated, db is checked, the code and payload are made
StartGen(i, name, phone, n) ==
    /\ Ready(i)
    /\ StartOtpRequest(name, phone)
    /\ IF ~db
       THEN h' = [h EXCEPT ![i] = [Idle EXCEPT !.kind = "start", !.pc = "done",
                     !.name = name, !.phone = phone,
                     !.status = 500, !.detail = "Database not available"]]
       ELSE h' = [h EXCEPT ![i] = [Idle EXCEPT !.kind = "start", !.pc = "upsert",
                     !.name = name, !.phone = phone, !.otp = FormatInt(n),
                     !.at = now,
                     !.payload = <<StartPayload(name, phone, FormatInt(n), now)>>]]
    /\ UNCHANGED <<db, auth, now, writer>>

\* history: the record the upsert writes over was verified
WasVerified(record) ==
    record # <<>> /\ Has(record[1], "verified") /\ record[1].verified

\* lines 104-107: the upsert, and the response carrying demo_otp
StartUpsert(i) ==
    /\ h[i].kind = "start" /\ h[i].pc = "upsert"
    /\ LET p == h[i].payload[1]
           coll == UpsertByPhone(auth, p.phone, p, [created_at |-> now])
       IN /\ auth' = coll
          /\ writer' = [k \in 1..Len(coll) |->
                          IF k \in MatchPhone(coll, p.phone) THEN i ELSE writer[k]]
          /\ h' = [h EXCEPT ![i].pc = "done", ![i].status = 200,
                            ![i].hit = WasVerified(FindOne(auth, p.phone))]
    /\ UNCHANGED <<db, now>>

----------------------------------------------------------------------------
(* verify_otp *)

\* lines 110-114: the request is validated, db is checked, the record is read
VerifyFind(i, phone, otp) ==
    /\ Ready(i)
    /\ VerifyOtpRequest(phone, otp)
    /\ IF ~db
       THEN h' = [h EXCEPT ![i] = [Idle EXCEPT !.kind = "verify", !.pc = "done",
                     !.phone = phone, !.otp = otp,
                     !.status = 500, !.detail = "Database not available"]]
       ELSE h' = [h EXCEPT ![i] = [Idle EXCEPT !.kind = "verify", !.pc = "check",
                     !.phone = phone, !.otp = otp,
                     !.record = FindOne(auth, phone),
                     !.saw = IF FindOne(auth, phone) = <<>> THEN 0
                             ELSE writer[FindOne(auth, phone)[1]._id]]]
    /\ UNCHANGED <<db, auth, now, writer>>

\* VerifyChecks with the code compared before the expiry
VerifyChecksCodeFirst(record, otp, t) ==
    IF record = <<>> THEN <<404, "Start verification first">>
    ELSE IF \/ ~Has(record[1], "otp_code") \/ record[1].otp_code = ""
            \/ ~Has(record[1], "otp_expires")
         THEN <<400, "No OTP generated">>
    ELSE IF otp # record[1].otp_code THEN <<400, "Invalid OTP">>
    ELSE IF t > record[1].otp_expires THEN <<400, "OTP expired">>
    ELSE <<0, "">>

\* VerifyChecks with >= for > in the expiry test
VerifyChecksGe(record, otp, t) ==
    IF record = <<>> THEN <<404, "Start verification first">>
    ELSE IF \/ ~Has(record[1], "otp_code") \/ record[1].otp_code = ""
            \/ ~Has(record[1], "otp_expires")
         THEN <<400, "No OTP generated">>
    ELSE IF t >= record[1].otp_expires THEN <<400, "OTP expired">>
    ELSE IF otp # record[1].otp_code THEN <<400, "Invalid OTP">>
    ELSE <<0, "">>

\* VerifyChecks without the comparison of the code
VerifyChecksNoCode(record, otp, t) ==
    IF record = <<>> THEN <<404, "Start verification first">>
    ELSE IF \/ ~Has(record[1], "otp_code") \/ record[1].otp_code = ""
            \/ ~Has(record[1], "otp_expires")
         THEN <<400, "No OTP generated">>
    ELSE IF t > record[1].otp_expires THEN <<400, "OTP expired">>
    ELSE <<0, "">>

\* lines 115-127: <<status, detail>> of the checks, <<0, "">> when all pass
VerifyChecks(record, otp, t) ==
    IF record = <<>> THEN <<404, "Start verification first">>
    ELSE IF \/ ~Has(record[1], "otp_code") \/ record[1].otp_code = ""
            \/ ~Has(record[1], "otp_expires")
         THEN <<400, "No OTP generated">>
    ELSE IF t > record[1].otp_expires THEN <<400, "OTP expired">>
    ELSE IF otp # record[1].otp_code THEN <<400, "Invalid OTP">>
    ELSE <<0, "">>

\* VerifyCheck with a lockout: a wrong code removes the pending code from the record
VerifyCheckLockout(i) ==
    /\ h[i].kind = "verify" /\ h[i].pc = "check"
    /\ LET r == VerifyChecks(h[i].record, h[i].otp, now)
       IN /\ h' = [h EXCEPT ![i].at = now,
                            ![i].status = r[1], ![i].detail = r[2],
                            ![i].pc = IF r[1] = 0 THEN "update" ELSE "done"]
          /\ auth' = IF r[2] = "Invalid OTP"
                     THEN UpdateById(auth, h[i].record[1]._id, <<>>,
                                     {"otp_code", "otp_expires"})
                     ELSE auth
    /\ UNCHANGED <<db, now, writer>>

\* lines 115-127 as a step: the clock is read and the checks are made
VerifyCheck(i) ==
    /\ h[i].kind = "verify" /\ h[i].pc = "check"
    /\ LET r == VerifyChecks(h[i].record, h[i].otp, now)
       IN h' = [h EXCEPT ![i].at = now,
                         ![i].status = r[1], ![i].detail = r[2],
                         ![i].pc = IF r[1] = 0 THEN "update" ELSE "done"]
    /\ UNCHANGED <<db, auth, now, writer>>

\* lines 130-132: the record is marked verified and its code removed
VerifyUpdate(i) ==
    /\ h[i].kind = "verify" /\ h[i].pc = "update"
    /\ auth' = UpdateById(auth, h[i].record[1]._id, [verified |-> TRUE],
                          {"otp_code", "otp_expires"})
    /\ h' = [h EXCEPT ![i].pc = "done", ![i].status = 200]
    /\ UNCHANGED <<db, now, writer>>

----------------------------------------------------------------------------
(* The clock *)

\* time passes between two steps: a whole validity window, or a minute more
Tick ==
    /\ \E d \in {OTP_MINUTES, OTP_MINUTES + 1} : now + d <= MaxTime /\ now' = now + d
    /\ UNCHANGED <<db, auth, h, writer>>

----------------------------------------------------------------------------
(* Specifications *)

Init ==
    /\ db \in BOOLEAN
    /\ auth = <<>>
    /\ now = 0
    /\ h = [i \in 1..MaxRequests |-> Idle]
    /\ writer = <<>>

NewStart == \E i \in 1..MaxRequests, name \in NameInputs, phone \in PhoneInputs, n \in RandInt :
                StartGen(i, name, phone, n)

NewVerify == \E i \in 1..MaxRequests, phone \in PhoneInputs, otp \in OtpInputs :
                VerifyFind(i, phone, otp)

Upsert == \E i \in 1..MaxRequests : StartUpsert(i)

Check == \E i \in 1..MaxRequests : VerifyCheck(i)

Update == \E i \in 1..MaxRequests : VerifyUpdate(i)

Next == NewStart \/ NewVerify \/ Upsert \/ Check \/ Update \/ Tick

Spec == Init /\ [][Next]_vars

\* no handler is between two of its steps
Quiet == \A i \in 1..MaxRequests : h[i].pc \in {"idle", "done"}

SeqStart == Quiet /\ NewStart

SeqVerify == Quiet /\ NewVerify

NextSeq == SeqStart \/ SeqVerify \/ Upsert \/ Check \/ Update \/ Tick

SpecSeq == Init /\ [][NextSeq]_vars

----------------------------------------------------------------------------
(* Vocabulary of the properties *)

Req == 1..MaxRequests

IsStart(i) == h[i].kind = "start"

IsVerify(i) == h[i].kind = "verify"

Done(i) == h[i].pc = "done"

Max(S) == CHOOSE x \in S : \A y \in S : x >= y

\* the record stored under phone p has verified=true and no otp field
VerifiedAndCleared(p) ==
    /\ FindOne(auth, p) # <<>>
    /\ Has(FindOne(auth, p)[1], "verified") /\ FindOne(auth, p)[1].verified
    /\ ~Has(FindOne(auth, p)[1], "otp_code")
    /\ ~Has(FindOne(auth, p)[1], "otp_expires")

\* request i + 1 is the last request taken up so far
Latest(i) == IF i = MaxRequests THEN TRUE ELSE h[i + 1].pc = "idle"

\* in SpecSeq the requests run in the order of their numbers: the successful starts
\* before request i that wrote the record find_one({"phone": h[i].phone}) looks up
Starts(i) == {j \in 1..(i - 1) : IsStart(j) /\ h[j].status = 200
                                  /\ Strip(h[j].phone) = h[i].phone}

LastStart(i) == Max(Starts(i))

\* a successful verify since the last start has removed the code
Consumed(i) == \E k \in (LastStart(i) + 1)..(i - 1) :
                  IsVerify(k) /\ h[k].status = 200 /\ h[k].phone = h[i].phone

UpsertStep(i) == h[i].pc = "upsert" /\ h'[i].pc = "done"

UpdateStep(i) == h[i].pc = "update" /\ h'[i].pc = "done"

----------------------------------------------------------------------------
(* C1 *)

\* C1 (as claimed): with the store available, a start accepted for (name, phone)
\* followed at once, within the window, by a verify of the same phone with the code
\* the start returned succeeds, and the record is then verified with no otp field.
C1_StartThenVerify ==
    \A i \in 1..(MaxRequests - 1) :
        ( /\ IsStart(i) /\ h[i].status = 200
          /\ IsVerify(i + 1) /\ Done(i + 1) /\ Latest(i + 1)
          /\ h[i + 1].phone = h[i].phone
          /\ h[i + 1].otp = h[i].otp
          /\ h[i + 1].at <= h[i].at + OTP_MINUTES )
        => /\ h[i + 1].status = 200
           /\ VerifiedAndCleared(Strip(h[i].phone))

----------------------------------------------------------------------------
(* C2 *)

\* C2 (as claimed): a start whose upsert finds a verified record leaves it verified.
C2_StartKeepsVerified ==
    [][\A i \in Req :
          (UpsertStep(i) /\ WasVerified(FindOne(auth, Strip(h[i].phone))))
          => WasVerified(FindOne(auth', Strip(h[i].phone)))]_vars

\* C2 (amended): every upsert of a start leaves the record of its phone with
\* verified=false and with the code and expiry of that start, whatever it held before.
C2_StartResetsVerified ==
    [][\A i \in Req :
          UpsertStep(i)
          => LET r == FindOne(auth', Strip(h[i].phone))
             IN /\ r # <<>>
                /\ Has(r[1], "verified") /\ ~r[1].verified
                /\ Has(r[1], "otp_code") /\ r[1].otp_code = h[i].otp
                /\ Has(r[1], "otp_expires")
                /\ r[1].otp_expires = h[i].at + OTP_MINUTES]_vars

\* a start has written over a verified record, which is now pending and not verified
C2_Witness ==
    \E i \in Req :
        /\ IsStart(i) /\ Done(i) /\ h[i].hit
        /\ FindOne(auth, Strip(h[i].phone)) # <<>>
        /\ ~FindOne(auth, Strip(h[i].phone))[1].verified
        /\ Has(FindOne(auth, Strip(h[i].phone))[1], "otp_code")

----------------------------------------------------------------------------
(* C3 *)

\* C3: in every reachable state, under every interleaving of the handlers, a record
\* with verified=true has neither otp_code nor otp_expires.
C3_VerifiedHasNoOtp ==
    \A k \in 1..Len(auth) :
        (Has(auth[k], "verified") /\ auth[k].verified)
        => (~Has(auth[k], "otp_code") /\ ~Has(auth[k], "otp_expires"))

\* a record is verified after its code was issued twice
C3_Witness ==
    /\ \E k \in 1..Len(auth) : Has(auth[k], "verified") /\ auth[k].verified
    /\ Cardinality({i \in Req : IsStart(i) /\ Done(i) /\ h[i].status = 200}) >= 2

----------------------------------------------------------------------------
(* C4 *)

\* requests i and i + 1 are successful starts for one phone and request i + 2 is a
\* verify for that phone, made within the window of the second start
TwoStartsThenVerify(i) ==
    /\ IsStart(i) /\ h[i].status = 200
    /\ IsStart(i + 1) /\ h[i + 1].status = 200
    /\ h[i + 1].phone = h[i].phone
    /\ IsVerify(i + 2) /\ Done(i + 2)
    /\ h[i + 2].phone = h[i].phone
    /\ h[i + 2].at <= h[i + 1].at + OTP_MINUTES

\* C4 (as claimed): after two consecutive starts for one phone, a verify with the
\* first code is rejected with "Invalid OTP" and a verify with the second succeeds,
\* for every pair of codes (stated here for the phones that are stored as given).
C4_FirstCodeRejected ==
    \A i \in 1..(MaxRequests - 2) :
        (TwoStartsThenVerify(i) /\ Strip(h[i].phone) = h[i].phone)
        => /\ h[i + 2].otp = h[i].otp
              => (h[i + 2].status = 400 /\ h[i + 2].detail = "Invalid OTP")
           /\ h[i + 2].otp = h[i + 1].otp => h[i + 2].status = 200

\* C4 (amended): after two consecutive starts for one phone, a verify within the
\* window succeeds exactly when its code is the second start's code and the phone is
\* the stored (stripped) phone; any other code, the first one included when the two
\* differ, is rejected with "Invalid OTP"; a phone that differs from its stripped
\* form is answered 404 whatever the code.
C4_OnlySecondCode ==
    \A i \in 1..(MaxRequests - 2) :
        TwoStartsThenVerify(i)
        => IF Strip(h[i].phone) # h[i].phone
           THEN h[i + 2].status = 404
           ELSE IF h[i + 2].otp = h[i + 1].otp
           THEN h[i + 2].status = 200
           ELSE h[i + 2].status = 400 /\ h[i + 2].detail = "Invalid OTP"

\* the first of two different codes was presented and rejected as invalid
C4_Witness ==
    \E i \in 1..(MaxRequests - 2) :
        /\ TwoStartsThenVerify(i)
        /\ h[i].otp # h[i + 1].otp
        /\ h[i + 2].otp = h[i].otp
        /\ h[i + 2].detail = "Invalid OTP"

----------------------------------------------------------------------------
(* C5 *)

\* request i is a verify that was answered by the handler's checks, with a code that
\* is not the one the last start for its phone issued
WrongCode(i) ==
    /\ IsVerify(i) /\ Done(i) /\ h[i].status # 500
    /\ Starts(i) # {}
    /\ h[i].otp # h[LastStart(i)].otp

\* C5 (as claimed): a verify with a code other than the last one issued for its phone
\* fails with "Invalid OTP" in every state of the record.
C5_AlwaysMismatch ==
    \A i \in Req :
        WrongCode(i) => (h[i].status = 400 /\ h[i].detail = "Invalid OTP")

\* C5 (amended): a verify with a code other than the last one issued for its phone
\* never succeeds: it fails with "No OTP generated" when a successful verify has
\* consumed the code, else with "OTP expired" when the window has passed, and with
\* "Invalid OTP" only when the code is still pending and in its window.
C5_WrongCodeFails ==
    \A i \in Req :
        WrongCode(i)
        => /\ h[i].status = 400
           /\ h[i].detail =
                 IF Consumed(i) THEN "No OTP generated"
                 ELSE IF h[i].at > h[LastStart(i)].at + OTP_MINUTES THEN "OTP expired"
                 ELSE "Invalid OTP"

\* a wrong code was presented for a record already verified
C5_Witness ==
    \E i \in Req :
        WrongCode(i) /\ Consumed(i) /\ h[i].detail = "No OTP generated"

----------------------------------------------------------------------------
(* C6 *)

\* request i is a verify whose checks have read the clock against a record that
\* holds a code and an expiry
ExpiryChecked(i) ==
    /\ IsVerify(i) /\ h[i].pc \in {"update", "done"} /\ h[i].status # 500
    /\ h[i].record # <<>>
    /\ Has(h[i].record[1], "otp_code") /\ Has(h[i].record[1], "otp_expires")

\* C6: a stored expiry is the issue time plus five minutes; a verify whose clock is
\* strictly after the expiry of the record it read fails with "OTP expired", the
\* right code included, and one whose clock is at or before it does not.
C6_ExpiryStrict ==
    /\ \A k \in 1..Len(auth) :
          Has(auth[k], "otp_expires")
          => auth[k].otp_expires = auth[k].updated_at + OTP_MINUTES
    /\ \A i \in Req :
          ExpiryChecked(i)
          => /\ h[i].at > h[i].record[1].otp_expires
                => (h[i].status = 400 /\ h[i].detail = "OTP expired")
             /\ h[i].at <= h[i].record[1].otp_expires
                => h[i].detail # "OTP expired"

\* the right code was presented after the expiry and rejected as expired
C6_Witness ==
    \E i \in Req :
        /\ ExpiryChecked(i)
        /\ h[i].otp = h[i].record[1].otp_code
        /\ h[i].at > h[i].record[1].otp_expires
        /\ h[i].detail = "OTP expired"

----------------------------------------------------------------------------
(* C7 *)

----------------------------------------------------------------------------
(* C8 *)

\* a step of a verify handler that does not end in success leaves the store as it is
C8_FailureKeepsStore ==
    \A i \in Req :
        (h'[i] # h[i] /\ h'[i].kind = "verify" /\ h'[i].status # 200)
        => auth' = auth

\* a verify with the pending code of its phone, within the window, succeeds however
\* many verifies have failed since the code was issued
C8_NoLockout ==
    \A i \in Req :
        ( /\ IsVerify(i) /\ Done(i) /\ h[i].status # 500
          /\ Starts(i) # {}
          /\ ~Consumed(i)
          /\ h[i].otp = h[LastStart(i)].otp
          /\ h[i].at <= h[LastStart(i)].at + OTP_MINUTES )
        => h[i].status = 200

\* C8: a failed verify leaves the store unchanged, and after failed verifies a verify
\* with the stored code within the window still succeeds.
C8_FailedVerifyHarmless == [](C8_NoLockout) /\ [][C8_FailureKeepsStore]_vars

\* a verify succeeded after a verify for the same phone failed on the same code issue
C8_Witness ==
    \E i \in Req :
        /\ IsVerify(i) /\ Done(i) /\ h[i].status = 200
        /\ Starts(i) # {}
        /\ \E k \in (LastStart(i) + 1)..(i - 1) :
              IsVerify(k) /\ h[k].phone = h[i].phone /\ h[k].status = 400

----------------------------------------------------------------------------
(* C9 *)

\* C9 (as claimed): no two verify requests return success for the same issued code,
\* under any interleaving of the handlers.
C9_AcceptedOnce ==
    \A i, j \in Req :
        ( /\ i # j
          /\ IsVerify(i) /\ Done(i) /\ h[i].status = 200
          /\ IsVerify(j) /\ Done(j) /\ h[j].status = 200
          /\ h[i].record[1]._id = h[j].record[1]._id )
        => h[i].saw # h[j].saw

----------------------------------------------------------------------------
(* C10 *)

\* C10 (as claimed): when a verify applies its success update and the record holds a
\* code at that moment, it is the code the verify presented.
C10_StoredCodeChecked ==
    [][\A i \in Req :
          (UpdateStep(i) /\ Has(auth[h[i].record[1]._id], "otp_code"))
          => auth[h[i].record[1]._id].otp_code = h[i].otp]_vars

\* C10 (amended): when a verify applies its success update, the code it presented is
\* the code of the record its find_one returned and its clock was not past that
\* record's expiry; the update marks the record verified and removes whatever code
\* the record holds at that moment.
C10_ReadCodeChecked ==
    [][\A i \in Req :
          UpdateStep(i)
          => /\ h[i].record # <<>>
             /\ Has(h[i].record[1], "otp_code")
             /\ h[i].record[1].otp_code = h[i].otp
             /\ h[i].at <= h[i].record[1].otp_expires
             /\ auth'[h[i].record[1]._id].verified
             /\ ~Has(auth'[h[i].record[1]._id], "otp_code")
             /\ ~Has(auth'[h[i].record[1]._id], "otp_expires")]_vars

\* a verify succeeded on a record that a start had written over since the verify read it
C10_Witness ==
    \E i \in Req :
        /\ IsVerify(i) /\ Done(i) /\ h[i].status = 200
        /\ writer[h[i].record[1]._id] # h[i].saw

====
